---- MODULE Spec2Model ----
(***************************************************************************)
(* Inventory Tracker: an express application over two Mongoose            *)
(* collections (User, Item) and an express-session store.                 *)
(*                                                                         *)
(* The state is the User collection, the Item collection, the session     *)
(* payload held for each browser session, the registrations suspended     *)
(* between their findOne and their save, the last response sent, the      *)
(* process with its database connection, and the updates and deletes in   *)
(* flight.  Each route handler of app.js is one action; POST /register is *)
(* two, one per await, because other requests run between them, and so    *)
(* are PUT /edit/:id and DELETE /delete/:id where their races are the     *)
(* subject.  A handler whose store operation rejects is an action of its  *)
(* own.                                                                    *)
(*                                                                         *)
(* UserSchema elides its fields other than password; username is          *)
(* modelled as the plain stored string app.js reads and writes, and no    *)
(* index is modelled because the schema declares none.                    *)
(*                                                                         *)
(* Mongoose behaviour relied on: save() validates, findOneAndUpdate does  *)
(* not; undefined keys are dropped from an update document; a string that *)
(* is no ObjectId or no date makes the query throw a CastError.           *)
(*                                                                         *)
(* Spec is the whole application.  The other specifications run the      *)
(* same actions with the sessions and request bodies that the properties  *)
(* stated under them are about; SpecFailure adds rejecting store          *)
(* operations, SpecStartup starts before the connection is settled, and   *)
(* SpecRace splits updates and deletes at their await.                    *)
(***************************************************************************)
EXTENDS Integers, Sequences, FiniteSets, TLC

\* ---------------------------------------------------------------- bounds
MaxUsers == 2
MaxItems == 2

\* ------------------------------------------------------- request inputs
Sessions == {"s1", "s2"}

\* A form field: has = FALSE is JavaScript's undefined.
Field(v) == [has |-> TRUE, val |-> v]
NoStr == [has |-> FALSE, val |-> ""]
NoChars == [has |-> FALSE, val |-> <<>>]

\* Bodies of POST /register and POST /login.
CredBodies ==
    { [username |-> "alice", password |-> Field("secret1")],
      [username |-> "alice", password |-> Field("pw2")],
      [username |-> "bob",   password |-> Field("secret1")],
      [username |-> "bob",   password |-> NoStr] }

\* The accounts used where the items are the subject.
OwnerBodies ==
    { [username |-> "alice", password |-> Field("secret1")],
      [username |-> "bob",   password |-> Field("secret1")] }

\* Bodies of POST /add and PUT /edit/:id.  quantity is the character
\* sequence typed into the form; dateAcquired is the form's date string.
ItemBody(name, category, quantity, dateAcquired) ==
    [name |-> name, category |-> category, quantity |-> quantity,
     dateAcquired |-> dateAcquired]

ItemBodies ==
    { ItemBody(Field("Hammer"), Field("Tools"), Field(<<"3">>), Field("2024-01-01")),
      ItemBody(Field("Nail"), Field("Tools"), Field(<<"-", "5">>), Field("2024-06-01")),
      ItemBody(Field("Nail"), Field("Tools"), Field(<<"a", "b", "c">>), Field("2024-06-01")),
      ItemBody(Field("Hammer"), Field("Tools"), NoChars, Field("2024-01-01")),
      ItemBody(Field("Hammer"), Field("Tools"), Field(<<"2", ".", "5">>), Field("2024-01-01")),
      ItemBody(NoStr, NoStr, NoChars, NoStr) }

\* The bodies used where the owner of an item is the subject.
OwnerItemBodies ==
    { ItemBody(Field("Hammer"), Field("Tools"), Field(<<"3">>), Field("2024-01-01")),
      ItemBody(Field("Nail"), Field("Tools"), Field(<<"-", "5">>), Field("2024-06-01")) }

\* Values of :id in /edit/:id and /delete/:id.
IdParams == {ToString(i) : i \in 1..MaxItems} \cup {"bogus"}

\* ------------------------------------------------- JavaScript numbers
\* A number is NaN or the rational n/d (d a power of ten).
NaN == [nan |-> TRUE, n |-> 0, d |-> 1]
Num(n, d) == [nan |-> FALSE, n |-> n, d |-> d]
Zero == Num(0, 1)
IsInteger(x) == ~x.nan /\ x.n % x.d = 0

DigitChars == {"0", "1", "2", "3", "4", "5", "6", "7", "8", "9"}
DigitVal(c) ==
    CASE c = "0" -> 0 [] c = "1" -> 1 [] c = "2" -> 2 [] c = "3" -> 3
      [] c = "4" -> 4 [] c = "5" -> 5 [] c = "6" -> 6 [] c = "7" -> 7
      [] c = "8" -> 8 [] c = "9" -> 9
AllDigits(str) == \A i \in 1..Len(str) : str[i] \in DigitChars

RECURSIVE DigitsToNat(_)
DigitsToNat(str) ==
    IF str = <<>> THEN 0
    ELSE 10 * DigitsToNat(SubSeq(str, 1, Len(str) - 1)) + DigitVal(str[Len(str)])

RECURSIVE Pow10(_)
Pow10(k) == IF k = 0 THEN 1 ELSE 10 * Pow10(k - 1)

\* StrUnsignedDecimalLiteral: digits, digits "." digits, "." digits, digits ".".
StrUnsignedDecimal(str) ==
    LET dots == {i \in 1..Len(str) : str[i] = "."}
    IN IF dots = {}
       THEN IF str # <<>> /\ AllDigits(str) THEN Num(DigitsToNat(str), 1) ELSE NaN
       ELSE IF Cardinality(dots) > 1 THEN NaN
       ELSE LET p == CHOOSE i \in dots : TRUE
                ip == SubSeq(str, 1, p - 1)
                fp == SubSeq(str, p + 1, Len(str))
            IN IF (ip = <<>> /\ fp = <<>>) \/ ~AllDigits(ip) \/ ~AllDigits(fp)
               THEN NaN
               ELSE Num(DigitsToNat(ip) * Pow10(Len(fp)) + DigitsToNat(fp),
                        Pow10(Len(fp)))

Negate(x) == IF x.nan THEN x ELSE Num(0 - x.n, x.d)

\* Number(value) on a form field: undefined is NaN, "" is 0, a signed
\* decimal literal is its value, any other string is NaN.
Number(field) ==
    IF ~field.has THEN NaN
    ELSE IF field.val = <<>> THEN Zero
    ELSE IF Head(field.val) = "-" THEN Negate(StrUnsignedDecimal(Tail(field.val)))
    ELSE IF Head(field.val) = "+" THEN StrUnsignedDecimal(Tail(field.val))
    ELSE StrUnsignedDecimal(field.val)

\* x || 0: NaN and 0 are falsy.
\* Faulty variant: the || 0 left out.
OrZeroMutant(x) == x
OrZero(x) == IF x.nan \/ x.n = 0 THEN Zero ELSE x

\* Math.max(0, x) for a non-NaN x.
\* Faulty variant: the Math.max left out.
MathMax0Mutant(x) == x
MathMax0(x) == IF x.n < 0 THEN Zero ELSE x

\* Math.max(0, Number(quantity) || 0)
ClampQuantity(quantity) == MathMax0(OrZero(Number(quantity)))

\* ------------------------------------------------------ Mongoose casts
\* A Date path: undefined stays undefined, "" casts to null, an ISO date
\* string casts to that day, anything else is a CastError.
NullDate == [kind |-> "null", day |-> 0]
CastError == [kind |-> "CastError", day |-> 0]
DateOf(day) == [kind |-> "date", day |-> day]
CastDate(str) ==
    CASE str = "" -> NullDate
      [] str = "2024-01-01" -> DateOf(20240101)
      [] str = "2024-06-01" -> DateOf(20240601)
      [] OTHER -> CastError

\* Date.now at the time of the request.
Now == {20240901}

\* An ObjectId path given a string: the id whose hex string it is, or a
\* CastError (0) when the string is not an ObjectId.
CastObjectId(str) ==
    IF \E i \in 1..(MaxItems + MaxUsers) : ToString(i) = str
    THEN CHOOSE i \in 1..(MaxItems + MaxUsers) : ToString(i) = str
    ELSE 0

\* String with trim: true.
Trim(str) == IF str = " " THEN "" ELSE str

\* bcrypt.genSalt(10) draws the salt at random.
Salts == {"saltA", "saltB"}

\* ------------------------------------------------------------- bcryptjs
\* bcrypt.hash(password, salt): the salt is kept inside the hash.
bcryptHash(password, salt) == [salt |-> salt, digest |-> <<password, salt>>]

\* bcrypt.compare(candidate, hash), as UserSchema.methods.comparePassword.
comparePassword(user, candidatePassword) ==
    /\ candidatePassword.has
    /\ bcryptHash(candidatePassword.val, user.password.salt) = user.password

\* ---------------------------------------------------------------- state
VARIABLES users, items, nextItem, session, reg, resp, server, inflight

vars == <<users, items, nextItem, session, reg, resp, server, inflight>>

\* The process: up until it exits; db is the state of the connection
\* mongoose.connect opens; abandoned holds the requests whose handler ended
\* without sending a response.
Serving == [up |-> TRUE, db |-> "connected", abandoned |-> {}]

\* A request is handled while the process is up; a store operation
\* succeeds on an open connection, is held back while the connection is
\* being opened, and can reject once the connection is settled.
Running == server.up
StoreOpen == server.up /\ server.db = "connected"
StoreSettled == server.up /\ server.db # "connecting"

\* req.session.user: has = FALSE when the session carries no user payload;
\* idHas = FALSE when the payload has no _id.
NoUser == [has |-> FALSE, idHas |-> FALSE, _id |-> "", username |-> ""]
Identity(user) ==
    [has |-> TRUE, idHas |-> TRUE, _id |-> ToString(user._id), username |-> user.username]

NoReg == [pending |-> FALSE, username |-> "", password |-> NoStr]

Response(route, sid, status, error, id, deletedCount, store) ==
    [route |-> route, sid |-> sid, status |-> status, error |-> error,
     id |-> id, deletedCount |-> deletedCount, store |-> store]

\* User.findOne({ username }): the first matching document, in insertion order.
MatchingUsers(username) == {i \in 1..Len(users) : users[i].username = username}
\* Faulty variant: the lookup never finds a user.
UserExistsMutant(username) == FALSE
UserExists(username) == MatchingUsers(username) # {}
FindOneUser(username) ==
    users[CHOOSE i \in MatchingUsers(username) :
              \A j \in MatchingUsers(username) : i <= j]

Init ==
    /\ users = <<>>
    /\ items = [i \in {} |-> 0]
    /\ nextItem = 1
    /\ session = [s \in Sessions |-> NoUser]
    /\ reg = [s \in Sessions |-> NoReg]
    /\ resp = Response("none", "s1", "none", "", "", 0, "none")
    /\ server = Serving
    /\ inflight = {}

\* ------------------------------------------------------- POST /register
\* Up to the first await: User.findOne({ username }) and the exists branch.
RegisterFind(s, body, inFlight) ==
    /\ StoreOpen
    /\ ~reg[s].pending
    /\ IF UserExists(body.username)
       THEN /\ resp' = Response("postRegister", s, "render:register",
                                "Username already exists.", "", 0, "none")
            /\ UNCHANGED <<server, inflight, users, items, nextItem, session, reg>>
       ELSE /\ Cardinality({t \in Sessions : reg[t].pending}) < inFlight
            /\ Len(users) + Cardinality({t \in Sessions : reg[t].pending}) < MaxUsers
            /\ reg' = [reg EXCEPT ![s] =
                          [pending |-> TRUE, username |-> body.username,
                           password |-> body.password]]
            /\ UNCHANGED <<server, inflight, users, items, nextItem, session, resp>>

\* new User({ username, password }); await user.save(); session; redirect.
\* save() validates (password is required), runs the pre('save') hook that
\* salts and hashes the password, and inserts the document.
\* Faulty variant: the new identity kept in one place shared by every
\* session instead of req.session.
RegisterSaveMutant(s, salt) ==
    /\ StoreOpen
    /\ reg[s].pending
    /\ reg' = [reg EXCEPT ![s] = NoReg]
    /\ IF reg[s].password.has /\ reg[s].password.val # ""
       THEN   LET user == [_id |-> Len(users) + 1,
                           username |-> reg[s].username,
                           password |-> bcryptHash(reg[s].password.val, salt)]
              IN /\ users' = Append(users, user)
                 /\ session' = [t \in Sessions |-> Identity(user)]
                 /\ resp' = Response("postRegister", s, "redirect:/", "", "", 0, "none")
                 /\ UNCHANGED <<server, inflight, items, nextItem>>
       ELSE /\ resp' = Response("postRegister", s, "render:register",
                                "Something went wrong during registration.", "", 0, "none")
            /\ UNCHANGED <<server, inflight, users, items, nextItem, session>>
RegisterSave(s, salt) ==
    /\ StoreOpen
    /\ reg[s].pending
    /\ reg' = [reg EXCEPT ![s] = NoReg]
    /\ IF reg[s].password.has /\ reg[s].password.val # ""
       THEN   LET user == [_id |-> Len(users) + 1,
                           username |-> reg[s].username,
                           password |-> bcryptHash(reg[s].password.val, salt)]
              IN /\ users' = Append(users, user)
                 /\ session' = [session EXCEPT ![s] = Identity(user)]
                 /\ resp' = Response("postRegister", s, "redirect:/", "", "", 0, "none")
                 /\ UNCHANGED <<server, inflight, items, nextItem>>
       ELSE /\ resp' = Response("postRegister", s, "render:register",
                                "Something went wrong during registration.", "", 0, "none")
            /\ UNCHANGED <<server, inflight, users, items, nextItem, session>>

\* ---------------------------------------------------------- POST /login
\* The user the handler authenticates: findOne by username, then
\* comparePassword; 0 when either fails.
Authenticated(body) ==
    IF UserExists(body.username)
       /\ comparePassword(FindOneUser(body.username), body.password)
    THEN FindOneUser(body.username)._id
    ELSE 0

\* Faulty variant: an unknown username gets a message of its own.
LoginMutant(s, body) ==
    /\ StoreOpen
    /\ IF Authenticated(body) # 0
       THEN /\ session' = [session EXCEPT ![s] = Identity(users[Authenticated(body)])]
            /\ resp' = Response("postLogin", s, "redirect:/", "", "", 0, "none")
       ELSE /\ resp' = Response("postLogin", s, "render:login",
                                IF UserExists(body.username)
                                THEN "Invalid username or password."
                                ELSE "User not found.", "", 0, "none")
            /\ UNCHANGED session
    /\ UNCHANGED <<server, inflight, users, items, nextItem, reg>>
Login(s, body) ==
    /\ StoreOpen
    /\ IF Authenticated(body) # 0
       THEN /\ session' = [session EXCEPT ![s] = Identity(users[Authenticated(body)])]
            /\ resp' = Response("postLogin", s, "redirect:/", "", "", 0, "none")
       ELSE /\ resp' = Response("postLogin", s, "render:login",
                                "Invalid username or password.", "", 0, "none")
            /\ UNCHANGED session
    /\ UNCHANGED <<server, inflight, users, items, nextItem, reg>>

\* ---------------------------------------------------------- GET /logout
\* Faulty variant: the redirect without the destroy.
LogoutMutant(s) ==
    /\ Running
    /\ resp' = Response("getLogout", s, "redirect:/", "", "", 0, "none")
    /\ UNCHANGED <<server, inflight, users, items, nextItem, session, reg>>
Logout(s) ==
    /\ Running
    /\ session' = [session EXCEPT ![s] = NoUser]
    /\ resp' = Response("getLogout", s, "redirect:/", "", "", 0, "none")
    /\ UNCHANGED <<server, inflight, users, items, nextItem, reg>>

\* ------------------------------------------------------ isAuthenticated
\* if (req.session.user) return next(); res.redirect("/login")
\* Faulty variant: the guard lets every request through.
isAuthenticatedMutant(sess) == TRUE
isAuthenticated(sess) == sess.has

\* The response of the guard when it does not call next().
Unauthenticated(route, s, id) ==
    /\ Running
    /\ resp' = Response(route, s, "redirect:/login", "", id, 0, "none")
    /\ UNCHANGED <<server, inflight, users, items, nextItem, session, reg>>

\* The filter { user: req.session.user._id }: the string is cast to an
\* ObjectId; an absent _id matches no document.
SessionUserId(sess) == IF sess.idHas THEN CastObjectId(sess._id) ELSE 0
ItemsOf(uid) == {i \in DOMAIN items : items[i].user = uid}

\* Item.find(filter): the ids of the matching documents, in the order
\* they were inserted.
RECURSIVE InOrder(_)
InOrder(ids) ==
    IF ids = {} THEN <<>>
    ELSE LET first == CHOOSE i \in ids : \A j \in ids : i <= j
         IN <<first>> \o InOrder(ids \ {first})

Find(uid) == InOrder(ItemsOf(uid))

\* ------------------------------------------------------- GET /inventory
\* The sort key of a document under { dateAcquired: -1 }: null sorts below
\* every date.
SortKey(i) == items[i].dateAcquired.day

\* One document placed into a list already sorted, after the documents
\* whose key is not smaller.
\* Faulty variant: { dateAcquired: 1 }, after the documents whose key is
\* not greater.
PlaceMutant(sorted, i) ==
    LET k == Cardinality({j \in 1..Len(sorted) : SortKey(sorted[j]) <= SortKey(i)})
    IN SubSeq(sorted, 1, k) \o <<i>> \o SubSeq(sorted, k + 1, Len(sorted))
Place(sorted, i) ==
    LET k == Cardinality({j \in 1..Len(sorted) : SortKey(sorted[j]) >= SortKey(i)})
    IN SubSeq(sorted, 1, k) \o <<i>> \o SubSeq(sorted, k + 1, Len(sorted))

\* .sort({ dateAcquired: -1 }) of the documents found; documents with
\* equal keys stay in the order they were found.
RECURSIVE Sort(_)
Sort(found) ==
    IF found = <<>> THEN <<>>
    ELSE Place(Sort(SubSeq(found, 1, Len(found) - 1)), found[Len(found)])

\* The values given to res.render("inventory", ...): the ids of the
\* documents listed, in the order listed.
InventoryLocals(s) == [items |-> Sort(Find(SessionUserId(session[s])))]

GetInventory(s) ==
    IF ~isAuthenticated(session[s]) THEN Unauthenticated("getInventory", s, "")
    ELSE /\ StoreOpen
         /\ resp' = Response("getInventory", s, "render:inventory", "", "", 0, "read")
                       @@ [locals |-> InventoryLocals(s)]
         /\ UNCHANGED <<server, inflight, users, items, nextItem, session, reg>>

\* ------------------------------------------------------------- GET /add
GetAdd(s) ==
    IF ~isAuthenticated(session[s]) THEN Unauthenticated("getAdd", s, "")
    ELSE /\ Running
         /\ resp' = Response("getAdd", s, "render:add", "", "", 0, "none")
         /\ UNCHANGED <<server, inflight, users, items, nextItem, session, reg>>

\* ------------------------------------------------------------ POST /add
\* The document new Item({...}) builds from the body.
NewItem(body, sess, now) ==
    [name |-> IF body.name.has THEN Trim(body.name.val) ELSE "",
     category |-> IF body.category.has THEN body.category.val ELSE "",
     quantity |-> ClampQuantity(body.quantity),
     dateAcquired |-> IF body.dateAcquired.has THEN CastDate(body.dateAcquired.val)
                      ELSE DateOf(now),
     user |-> SessionUserId(sess)]

\* item.save() validation: name, category and user required, quantity
\* min 0, dateAcquired castable.
\* Faulty variant: name not required.
ItemValidMutant(item) ==
    /\ item.category # ""
    /\ ~item.quantity.nan /\ item.quantity.n >= 0
    /\ item.dateAcquired.kind # "CastError"
    /\ item.user # 0
ItemValid(item) ==
    /\ item.name # ""
    /\ item.category # ""
    /\ ~item.quantity.nan /\ item.quantity.n >= 0
    /\ item.dateAcquired.kind # "CastError"
    /\ item.user # 0

PostAdd(s, body, now) ==
    IF ~isAuthenticated(session[s]) THEN Unauthenticated("postAdd", s, "")
    ELSE LET item == NewItem(body, session[s], now)
         IN IF ItemValid(item)
            THEN /\ StoreOpen
                 /\ nextItem <= MaxItems
                 /\ items' = [i \in DOMAIN items \cup {nextItem} |->
                                 IF i = nextItem THEN item ELSE items[i]]
                 /\ nextItem' = nextItem + 1
                 /\ resp' = Response("postAdd", s, "redirect:/inventory", "",
                                     ToString(nextItem), 0, "write")
                 /\ UNCHANGED <<server, inflight, users, session, reg>>
            ELSE /\ Running
                 /\ resp' = Response("postAdd", s, "redirect:/add", "", "", 0, "none")
                 /\ UNCHANGED <<server, inflight, users, items, nextItem, session, reg>>

\* -------------------------------------------------------- GET /edit/:id
\* Item.findById(id), then the ownership test of the handler:
\* !item || item.user.toString() !== req.session.user._id
GetEditResponse(s, id) ==
    LET oid == CastObjectId(id)
    IN IF oid = 0 \/ oid \notin DOMAIN items
          \/ ToString(items[oid].user) # session[s]._id
       THEN Response("getEdit", s, "redirect:/inventory", "", id, 0, "read")
       ELSE Response("getEdit", s, "render:edit", "", id, 0, "read")

GetEdit(s, id) ==
    IF ~isAuthenticated(session[s]) THEN Unauthenticated("getEdit", s, id)
    ELSE /\ StoreOpen
         /\ resp' = GetEditResponse(s, id)
         /\ UNCHANGED <<server, inflight, users, items, nextItem, session, reg>>

\* -------------------------------------------------------- PUT /edit/:id
\* The documents matched by { _id: id, user: req.session.user._id }.
\* Faulty variant: the filter by _id alone.
OwnedMatchMutant(id, sess) == {i \in DOMAIN items : i = CastObjectId(id)}
OwnedMatch(id, sess) ==
    {i \in DOMAIN items : i = CastObjectId(id) /\ items[i].user = SessionUserId(sess)}

\* The update document applied to a stored item: undefined keys are
\* dropped from the update, quantity is always present.
\* Faulty variant: an undefined name is written as the empty value.
ApplyUpdateMutant(item, body) ==
    [name |-> IF body.name.has THEN Trim(body.name.val) ELSE "",
     category |-> IF body.category.has THEN body.category.val ELSE item.category,
     quantity |-> ClampQuantity(body.quantity),
     dateAcquired |-> IF body.dateAcquired.has THEN CastDate(body.dateAcquired.val)
                      ELSE item.dateAcquired,
     user |-> item.user]
ApplyUpdate(item, body) ==
    [name |-> IF body.name.has THEN Trim(body.name.val) ELSE item.name,
     category |-> IF body.category.has THEN body.category.val ELSE item.category,
     quantity |-> ClampQuantity(body.quantity),
     dateAcquired |-> IF body.dateAcquired.has THEN CastDate(body.dateAcquired.val)
                      ELSE item.dateAcquired,
     user |-> item.user]

\* Casting the filter and the update throws before the store is asked.
UpdateCastFails(id, body) ==
    \/ CastObjectId(id) = 0
    \/ body.dateAcquired.has /\ CastDate(body.dateAcquired.val).kind = "CastError"

\* Item.findOneAndUpdate(filter, update, { new: true }) with the session
\* payload the handler read: the collection after it.
\* Faulty variant: { new: true, upsert: true }, which inserts the document
\* when the filter matches none.
FindOneAndUpdateMutant(sess, id, body) ==
    IF UpdateCastFails(id, body) THEN items
    ELSE IF OwnedMatch(id, sess) = {}
    THEN [i \in DOMAIN items \cup {CastObjectId(id)} |->
             IF i = CastObjectId(id)
             THEN ApplyUpdate([name |-> "", category |-> "", quantity |-> Zero,
                               dateAcquired |-> NullDate,
                               user |-> SessionUserId(sess)], body)
             ELSE items[i]]
    ELSE [i \in DOMAIN items |->
             IF i \in OwnedMatch(id, sess)
             THEN ApplyUpdate(items[i], body) ELSE items[i]]
FindOneAndUpdate(sess, id, body) ==
    IF UpdateCastFails(id, body) THEN items
    ELSE [i \in DOMAIN items |->
             IF i \in OwnedMatch(id, sess)
             THEN ApplyUpdate(items[i], body) ELSE items[i]]

EditedItems(s, id, body) == FindOneAndUpdate(session[s], id, body)

PutEditResponse(s, id, body) ==
    Response("putEdit", s, "redirect:/inventory", "", id, 0,
             IF UpdateCastFails(id, body) \/ OwnedMatch(id, session[s]) = {}
             THEN "read" ELSE "write")

\* Faulty variant: the whole of req.body given as the update, so that a
\* user field of the body is written too.
PutEditMutant(s, id, body) ==
    IF ~isAuthenticated(session[s]) THEN Unauthenticated("putEdit", s, id)
    ELSE /\ StoreOpen
         /\ items' = [i \in DOMAIN items |->
                          IF "user" \in DOMAIN body /\ body.user.has
                          THEN [EditedItems(s, id, body)[i] EXCEPT
                                  !.user = IF i \in OwnedMatch(id, session[s])
                                           THEN CastObjectId(body.user.val) ELSE @]
                          ELSE EditedItems(s, id, body)[i]]
         /\ resp' = PutEditResponse(s, id, body)
         /\ UNCHANGED <<server, inflight, users, nextItem, session, reg>>
PutEdit(s, id, body) ==
    IF ~isAuthenticated(session[s]) THEN Unauthenticated("putEdit", s, id)
    ELSE /\ StoreOpen
         /\ items' = EditedItems(s, id, body)
         /\ resp' = PutEditResponse(s, id, body)
         /\ UNCHANGED <<server, inflight, users, nextItem, session, reg>>

\* ---------------------------------------------------- DELETE /delete/:id
\* Item.deleteOne({ _id: id, user: req.session.user._id }): the collection
\* after it, and result.deletedCount.
\* Faulty variant: deleteMany by owner once the id matches.
DeletedItemsMutant(s, id) ==
    IF OwnedMatch(id, session[s]) = {} THEN items
    ELSE [i \in DOMAIN items \ ItemsOf(SessionUserId(session[s])) |-> items[i]]
DeletedItems(s, id) ==
    [i \in DOMAIN items \ OwnedMatch(id, session[s]) |-> items[i]]

DeleteResponse(s, id) ==
    Response("delete", s, "redirect:/inventory", "", id,
             Cardinality(OwnedMatch(id, session[s])),
             IF OwnedMatch(id, session[s]) = {} THEN "read" ELSE "write")

Delete(s, id) ==
    IF ~isAuthenticated(session[s]) THEN Unauthenticated("delete", s, id)
    ELSE /\ StoreOpen
         /\ items' = DeletedItems(s, id)
         /\ resp' = DeleteResponse(s, id)
         /\ UNCHANGED <<server, inflight, users, nextItem, session, reg>>

\* ------------------------------------- PUT and DELETE, request by request
\* A handler runs up to its await, where its store operation is on its
\* way with the filter and update built from the session payload it read;
\* the operation is applied by the store in one step, and the handler
\* answers.  Requests of other handlers run in between.  n tells the
\* requests in flight apart.
Request(route, s, id, body, limit) ==
    [n |-> CHOOSE k \in 1..limit : \A r \in inflight : r.n # k,
     route |-> route, sid |-> s, id |-> id, body |-> body, session |-> session[s]]

\* PUT /edit/:id up to its await, for an item the caller owns; limit is
\* the number of requests in flight at one time.
SendEdit(s, id, body, limit) ==
    /\ Running
    /\ isAuthenticated(session[s])
    /\ OwnedMatch(id, session[s]) # {}
    /\ Cardinality(inflight) < limit
    /\ inflight' = inflight \cup {Request("putEdit", s, id, body, limit)}
    /\ UNCHANGED <<server, users, items, nextItem, session, reg, resp>>

\* DELETE /delete/:id up to its await, for an item the caller owns.
SendDelete(s, id, limit) ==
    /\ Running
    /\ isAuthenticated(session[s])
    /\ OwnedMatch(id, session[s]) # {}
    /\ Cardinality(inflight) < limit
    /\ inflight' = inflight \cup
           {Request("delete", s, id, ItemBody(NoStr, NoStr, NoChars, NoStr), limit)}
    /\ UNCHANGED <<server, users, items, nextItem, session, reg, resp>>

\* The findOneAndUpdate of a request in flight is applied, and its
\* handler redirects.
SettleEdit(r) ==
    /\ StoreOpen
    /\ r \in inflight /\ r.route = "putEdit"
    /\ items' = FindOneAndUpdate(r.session, r.id, r.body)
    /\ resp' = Response("putEdit", r.sid, "redirect:/inventory", "", r.id, 0,
                        IF UpdateCastFails(r.id, r.body) \/ OwnedMatch(r.id, r.session) = {}
                        THEN "read" ELSE "write")
    /\ inflight' = inflight \ {r}
    /\ UNCHANGED <<server, users, nextItem, session, reg>>

\* The deleteOne of a request in flight is applied, and its handler
\* redirects.
SettleDelete(r) ==
    /\ StoreOpen
    /\ r \in inflight /\ r.route = "delete"
    /\ items' = [i \in DOMAIN items \ OwnedMatch(r.id, r.session) |-> items[i]]
    /\ resp' = Response("delete", r.sid, "redirect:/inventory", "", r.id,
                        Cardinality(OwnedMatch(r.id, r.session)),
                        IF OwnedMatch(r.id, r.session) = {} THEN "read" ELSE "write")
    /\ inflight' = inflight \ {r}
    /\ UNCHANGED <<server, users, nextItem, session, reg>>

\* ----------------------------------------------------------- GET /stats
\* a + b on two numbers that are not NaN.
RECURSIVE Reduced(_)
Reduced(x) == IF x.d > 1 /\ x.n % 10 = 0 THEN Reduced(Num(x.n \div 10, x.d \div 10)) ELSE x

Plus(a, b) ==
    LET d == IF a.d >= b.d THEN a.d ELSE b.d
    IN Reduced(Num(a.n * (d \div a.d) + b.n * (d \div b.d), d))

\* items.reduce((sum, item) => sum + item.quantity, sum)
RECURSIVE Reduce(_, _)
Reduce(found, sum) ==
    IF found = <<>> THEN sum
    ELSE Reduce(Tail(found), Plus(sum, items[Head(found)].quantity))

\* A value read from or written to the categoryCount object: undefined, a
\* number, a member inherited from Object.prototype, or the string made
\* of such a member followed by n characters "1".
Undefined == [kind |-> "undefined", n |-> 0]
JSNumber(n) == [kind |-> "number", n |-> n]
Inherited == [kind |-> "inherited", n |-> 0]
Concatenated(n) == [kind |-> "string", n |-> n]

\* The property names every object literal inherits.
ObjectPrototypeKeys ==
    {"constructor", "toString", "valueOf", "hasOwnProperty", "__proto__"}

\* obj[key]: an own property, else an inherited one, else undefined.
GetProp(obj, key) ==
    IF key \in DOMAIN obj THEN obj[key]
    ELSE IF key \in ObjectPrototypeKeys THEN Inherited
    ELSE Undefined

\* obj[key] = value; assigning a string to __proto__ does nothing.
SetProp(obj, key, value) ==
    IF key = "__proto__" THEN obj
    ELSE [k \in DOMAIN obj \cup {key} |-> IF k = key THEN value ELSE obj[k]]

\* (value || 0) + 1: a number is incremented; anything else is converted
\* to a string and "1" is appended.
OrZeroPlusOne(value) ==
    CASE value.kind = "undefined" -> JSNumber(1)
      [] value.kind = "number" -> JSNumber(value.n + 1)
      [] OTHER -> Concatenated(value.n + 1)

\* items.forEach(item => { categoryCount[item.category] = ... })
RECURSIVE ForEachCount(_, _)
ForEachCount(found, categoryCount) ==
    IF found = <<>> THEN categoryCount
    ELSE LET category == items[Head(found)].category
         IN ForEachCount(Tail(found),
                SetProp(categoryCount, category,
                        OrZeroPlusOne(GetProp(categoryCount, category))))

\* The values given to res.render("stats", ...).
StatsLocals(s) ==
    LET found == Find(SessionUserId(session[s]))
    IN [totalItems |-> Len(found),
        totalQuantity |-> Reduce(found, Zero),
        categoryCount |-> ForEachCount(found, [k \in {} |-> Undefined])]

GetStats(s) ==
    IF ~isAuthenticated(session[s]) THEN Unauthenticated("getStats", s, "")
    ELSE /\ StoreOpen
         /\ resp' = Response("getStats", s, "render:stats", "", "", 0, "read")
                       @@ [locals |-> StatsLocals(s)]
         /\ UNCHANGED <<server, inflight, users, items, nextItem, session, reg>>

\* ------------------------------------------------- the store rejecting
\* The routes whose handler awaits a User or Item operation, and those of
\* them behind isAuthenticated.
StoreRoutes ==
    {"postRegister", "postLogin", "getInventory", "postAdd", "getEdit",
     "putEdit", "delete", "getStats"}
GuardedStoreRoutes == StoreRoutes \ {"postRegister", "postLogin"}

\* What the catch block of a handler answers.
CatchStatus(route) ==
    CASE route = "postRegister" -> "render:register"
      [] route = "postLogin" -> "render:login"
      [] route = "postAdd" -> "redirect:/add"
      [] OTHER -> "redirect:/inventory"

CatchError(route) ==
    CASE route = "postRegister" -> "Something went wrong during registration."
      [] route = "postLogin" -> "Something went wrong during login."
      [] OTHER -> ""

\* What becomes of a rejection no handler catches: Express 5 passes it to
\* its error handler, which answers 500; Express 4 lets it go, the request
\* is never answered, and Node ends the process ("crash", Node 15 and
\* later) or only warns ("hang").
UncaughtOutcomes == {"500", "crash", "hang"}

\* GET /inventory when Item.find rejects: the handler has no try/catch.
InventoryRejects(s, outcome) ==
    /\ StoreSettled
    /\ isAuthenticated(session[s])
    /\ IF outcome = "500"
       THEN /\ resp' = Response("getInventory", s, "error:500", "", "", 0, "failed")
            /\ UNCHANGED server
       ELSE /\ server' = [server EXCEPT !.up = (outcome = "hang"),
                                        !.abandoned = @ \cup {<<s, "getInventory">>}]
            /\ UNCHANGED resp
    /\ UNCHANGED <<inflight, users, items, nextItem, session, reg>>

\* Any other store route when its store operation rejects: the catch
\* block answers; a registration suspended at its save is over.
HandlerCatches(route, s, id) ==
    /\ StoreSettled
    /\ route \in GuardedStoreRoutes => isAuthenticated(session[s])
    /\ route = "postRegister" => ~reg[s].pending
    /\ resp' = Response(route, s, CatchStatus(route), CatchError(route), id, 0, "failed")
    /\ UNCHANGED <<server, inflight, users, items, nextItem, session, reg>>

RegisterSaveRejects(s) ==
    /\ StoreSettled
    /\ reg[s].pending
    /\ reg' = [reg EXCEPT ![s] = NoReg]
    /\ resp' = Response("postRegister", s, CatchStatus("postRegister"),
                        CatchError("postRegister"), "", 0, "failed")
    /\ UNCHANGED <<server, inflight, users, items, nextItem, session>>

\* A request of one of the sessions whose store operation rejects.
StoreRejects(sessions) ==
    \/ \E s \in sessions, outcome \in UncaughtOutcomes : InventoryRejects(s, outcome)
    \/ \E s \in sessions, route \in StoreRoutes \ {"getInventory"} :
           \E id \in IF route \in {"getEdit", "putEdit", "delete"} THEN IdParams ELSE {""} :
               HandlerCatches(route, s, id)
    \/ \E s \in sessions : RegisterSaveRejects(s)

\* The credential routes, for requests of the given sessions with the
\* given bodies; inFlight bounds the registrations suspended at one time.
AuthNext(sessions, creds, salts, inFlight) ==
    \/ \E s \in sessions, body \in creds : RegisterFind(s, body, inFlight)
    \/ \E s \in sessions, salt \in salts : RegisterSave(s, salt)
    \/ \E s \in sessions, body \in creds : Login(s, body)
    \/ \E s \in sessions : Logout(s)

\* The protected routes, for requests of the given sessions with the given
\* bodies.
ItemNext(sessions, bodies) ==
    \/ \E s \in sessions : GetInventory(s)
    \/ \E s \in sessions : GetAdd(s)
    \/ \E s \in sessions, body \in bodies, now \in Now : PostAdd(s, body, now)
    \/ \E s \in sessions, id \in IdParams : GetEdit(s, id)
    \/ \E s \in sessions, id \in IdParams, body \in bodies : PutEdit(s, id, body)
    \/ \E s \in sessions, id \in IdParams : Delete(s, id)
    \/ \E s \in sessions : GetStats(s)

\* Every route, both sessions, the accounts of OwnerBodies registering one
\* at a time, every item body.
Next ==
    \/ AuthNext(Sessions, OwnerBodies, {"saltA"}, 1)
    \/ ItemNext(Sessions, ItemBodies)

Spec == Init /\ [][Next]_vars

\* The credential routes alone, with every credential body and salt and
\* two registrations in flight.
NextAuth == AuthNext(Sessions, CredBodies, Salts, 2)

SpecAuth == Init /\ [][NextAuth]_vars

\* Two accounts, alice in session s1 and bob in session s2, over the items
\* of OwnerItemBodies: the ownership and session rules.
NextOwner ==
    \/ AuthNext({"s1"}, {[username |-> "alice", password |-> Field("secret1")]},
                {"saltA"}, 1)
    \/ AuthNext({"s2"}, {[username |-> "bob", password |-> Field("secret1")]},
                {"saltA"}, 1)
    \/ ItemNext(Sessions, OwnerItemBodies)

SpecOwner == Init /\ [][NextOwner]_vars

\* One account in one session, with every item body: the quantity rule.
NextQuantity ==
    \/ AuthNext({"s1"}, {[username |-> "alice", password |-> Field("secret1")]},
                {"saltA"}, 1)
    \/ ItemNext({"s1"}, ItemBodies)

SpecQuantity == Init /\ [][NextQuantity]_vars

\* The protected routes and logout, from sessions whose payload the
\* session store returns with or without a user id: the store outlives the
\* process and its payloads are not written by this process alone.
SessionPayloads ==
    { NoUser,
      [has |-> TRUE, idHas |-> FALSE, _id |-> "", username |-> "alice"],
      [has |-> TRUE, idHas |-> FALSE, _id |-> "", username |-> "bob"] }

InitGuard ==
    /\ users = <<>>
    /\ items = [i \in {} |-> 0]
    /\ nextItem = 1
    /\ session \in [Sessions -> SessionPayloads]
    /\ reg = [s \in Sessions |-> NoReg]
    /\ resp = Response("none", "s1", "none", "", "", 0, "none")
    /\ server = Serving
    /\ inflight = {}

NextGuard == ItemNext(Sessions, OwnerItemBodies) \/ \E s \in Sessions : Logout(s)

SpecGuard == InitGuard /\ [][NextGuard]_vars

\* One account in one session; the bodies of a form that sends every
\* field, of a request that sends the name alone, and of a form submitted
\* with name and category left empty: what an update writes.
UpdateBodies ==
    { ItemBody(Field("Hammer"), Field("Tools"), Field(<<"3">>), Field("2024-01-01")),
      ItemBody(Field("Nail"), NoStr, NoChars, NoStr),
      ItemBody(Field(""), Field(""), NoChars, NoStr) }

NextUpdate ==
    \/ AuthNext({"s1"}, {[username |-> "alice", password |-> Field("secret1")]},
                {"saltA"}, 1)
    \/ ItemNext({"s1"}, UpdateBodies)

SpecUpdate == Init /\ [][NextUpdate]_vars

\* One account in one session; the bodies of an add form with a date, with
\* no date field, with a date that does not parse, with the date left
\* empty, with no name and with a blank name: what an add accepts.
AddBodies ==
    { ItemBody(Field("Hammer"), Field("Tools"), Field(<<"3">>), Field("2024-01-01")),
      ItemBody(Field("Hammer"), Field("Tools"), Field(<<"3">>), NoStr),
      ItemBody(Field("Hammer"), Field("Tools"), Field(<<"3">>), Field("not-a-date")),
      ItemBody(Field("Hammer"), Field("Tools"), Field(<<"3">>), Field("")),
      ItemBody(NoStr, Field("Tools"), Field(<<"3">>), Field("2024-01-01")),
      ItemBody(Field(" "), Field("Tools"), Field(<<"3">>), Field("2024-01-01")) }

NextAdd ==
    \/ AuthNext({"s1"}, {[username |-> "alice", password |-> Field("secret1")]},
                {"saltA"}, 1)
    \/ ItemNext({"s1"}, AddBodies)

SpecAdd == Init /\ [][NextAdd]_vars

\* Two accounts, alice in session s1 and bob in session s2; items of one
\* category twice and of a category named like a member of
\* Object.prototype: the statistics.
StatsBodies ==
    { ItemBody(Field("Hammer"), Field("Tools"), Field(<<"3">>), Field("2024-01-01")),
      ItemBody(Field("Nail"), Field("Tools"), Field(<<"1", "0", "0">>), Field("2024-06-01")),
      ItemBody(Field("Lathe"), Field("constructor"), Field(<<"2", ".", "5">>),
               Field("2024-06-01")) }

NextStats ==
    \/ AuthNext({"s1"}, {[username |-> "alice", password |-> Field("secret1")]},
                {"saltA"}, 1)
    \/ AuthNext({"s2"}, {[username |-> "bob", password |-> Field("secret1")]},
                {"saltA"}, 1)
    \/ ItemNext(Sessions, StatsBodies)

SpecStats == Init /\ [][NextStats]_vars

\* One account in one session, with store operations that may reject at
\* any request; a process that has ended handles nothing more.
NextFailure ==
    \/ AuthNext({"s1"}, {[username |-> "alice", password |-> Field("secret1")]},
                {"saltA"}, 1)
    \/ ItemNext({"s1"}, {ItemBody(Field("Hammer"), Field("Tools"), Field(<<"3">>),
                                  Field("2024-01-01"))})
    \/ StoreRejects({"s1"})

SpecFailure == Init /\ [][NextFailure]_vars

\* The process from its start: app.listen has been called and the
\* connection mongoose.connect opens is not settled yet.
Starting == [up |-> TRUE, db |-> "connecting", abandoned |-> {}]

InitStartup ==
    /\ users = <<>>
    /\ items = [i \in {} |-> 0]
    /\ nextItem = 1
    /\ session = [s \in Sessions |-> NoUser]
    /\ reg = [s \in Sessions |-> NoReg]
    /\ resp = Response("none", "s1", "none", "", "", 0, "none")
    /\ server = Starting
    /\ inflight = {}

\* mongoose.connect settles: .then logs the connection, .catch logs the
\* error; neither ends the process.
ConnectSettles(outcome) ==
    /\ Running
    /\ server.db = "connecting"
    /\ server' = [server EXCEPT !.db = outcome]
    /\ UNCHANGED <<inflight, users, items, nextItem, session, reg, resp>>

\* One account in one session, from the start of the process, with store
\* operations that may reject.
NextStartup ==
    \/ \E outcome \in {"connected", "failed"} : ConnectSettles(outcome)
    \/ AuthNext({"s1"}, {[username |-> "alice", password |-> Field("secret1")]},
                {"saltA"}, 1)
    \/ ItemNext({"s1"}, {ItemBody(Field("Hammer"), Field("Tools"), Field(<<"3">>),
                                  Field("2024-01-01"))})
    \/ StoreRejects({"s1"})

SpecStartup == InitStartup /\ [][NextStartup]_vars

\* One account in one session adding items, with up to three updates and
\* deletes of its items in flight at one time.
RaceBody == ItemBody(Field("Nail"), Field("Tools"), Field(<<"-", "5">>), Field("2024-06-01"))

NextRace ==
    \/ AuthNext({"s1"}, {[username |-> "alice", password |-> Field("secret1")]},
                {"saltA"}, 1)
    \/ \E now \in Now :
           PostAdd("s1", ItemBody(Field("Hammer"), Field("Tools"), Field(<<"3">>),
                                  Field("2024-01-01")), now)
    \/ \E id \in IdParams : SendEdit("s1", id, RaceBody, 3)
    \/ \E id \in IdParams : SendDelete("s1", id, 3)
    \/ \E r \in inflight : SettleEdit(r)
    \/ \E r \in inflight : SettleDelete(r)

SpecRace == Init /\ [][NextRace]_vars

\* Two accounts, alice in session s1 and bob in session s2, whose bodies
\* carry a user field beside the four the handlers read.
ForgedBodies ==
    { [name |-> Field("Hammer"), category |-> Field("Tools"),
       quantity |-> Field(<<"3">>), dateAcquired |-> Field("2024-01-01"),
       user |-> Field("1")],
      [name |-> Field("Nail"), category |-> Field("Tools"),
       quantity |-> Field(<<"-", "5">>), dateAcquired |-> Field("2024-06-01"),
       user |-> Field("2")] }

NextForged ==
    \/ AuthNext({"s1"}, {[username |-> "alice", password |-> Field("secret1")]},
                {"saltA"}, 1)
    \/ AuthNext({"s2"}, {[username |-> "bob", password |-> Field("secret1")]},
                {"saltA"}, 1)
    \/ ItemNext(Sessions, ForgedBodies)

SpecForged == Init /\ [][NextForged]_vars

\* ================================================================ claims

\* A response without the id it was asked about.
View(r) == [route |-> r.route, sid |-> r.sid, status |-> r.status,
            error |-> r.error, deletedCount |-> r.deletedCount, store |-> r.store]

\* Session s is logged in and id names a stored item of another user.
Foreign(s, id) ==
    /\ session[s].has /\ session[s].idHas
    /\ CastObjectId(id) \in DOMAIN items
    /\ ToString(items[CastObjectId(id)].user) # session[s]._id

\* id names no stored item.
Missing(id) == CastObjectId(id) \notin DOMAIN items

\* The step answers a request of session s on one of the routes.
Answers(s, routes) == resp'.sid = s /\ resp'.route \in routes /\ reg' = reg

ProtectedRoutes ==
    {"getInventory", "getAdd", "postAdd", "getEdit", "putEdit", "delete", "getStats"}

\* C1: cross-user isolation.  For an item of user A and a session of user
\* B # A, GET /edit/:id, PUT /edit/:id (any body) and DELETE /delete/:id
\* leave the Item collection unchanged and answer with the redirect to
\* /inventory, exactly as they answer for an id that names no item.
C1_CrossUserIsolation ==
    \A s \in Sessions, id \in IdParams :
        Foreign(s, id) =>
            /\ GetEditResponse(s, id).status = "redirect:/inventory"
            /\ DeletedItems(s, id) = items
            /\ DeleteResponse(s, id).status = "redirect:/inventory"
            /\ \A body \in ItemBodies :
                   /\ EditedItems(s, id, body) = items
                   /\ PutEditResponse(s, id, body).status = "redirect:/inventory"
            /\ \A m \in IdParams :
                   Missing(m) =>
                       /\ View(GetEditResponse(s, id)) = View(GetEditResponse(s, m))
                       /\ View(DeleteResponse(s, id)) = View(DeleteResponse(s, m))
                       /\ \A body \in ItemBodies :
                              View(PutEditResponse(s, id, body))
                                  = View(PutEditResponse(s, m, body))

\* A logged-in session has just asked for another user's item, which is
\* still stored.
C1_Witness ==
    /\ resp.route \in {"getEdit", "putEdit", "delete"}
    /\ resp.status = "redirect:/inventory"
    /\ Foreign(resp.sid, resp.id)

\* C2: no two User documents share a username, in every reachable state,
\* whatever the interleaving of the registrations.
C2_UsernamesUnique ==
    \A i, j \in 1..Len(users) :
        i # j => users[i].username # users[j].username

\* C3: a POST /register whose username is already stored answers with
\* "Username already exists.", and leaves the User collection and every
\* session as they were.
C3_DuplicateRejected ==
    [][\A s \in Sessions, body \in CredBodies :
           /\ \E i \in 1..Len(users) : users[i].username = body.username
           /\ RegisterFind(s, body, 2)
           => /\ resp'.route = "postRegister"
              /\ resp'.status = "render:register"
              /\ resp'.error = "Username already exists."
              /\ users' = users
              /\ session' = session
              /\ reg' = reg]_vars

\* A registration has just been refused for a stored username.
C3_Witness ==
    /\ resp.route = "postRegister"
    /\ resp.error = "Username already exists."
    /\ Len(users) > 0

\* The password a stored user registered with.
RegisteredPassword(user) == Field(user.password.digest[1])

\* C4: every registered user can log in afterwards with the username and
\* password of the registration, and the session identity is that user's
\* id and username.
C4_LoginAfterRegister ==
    \A i \in 1..Len(users) :
        Authenticated([username |-> users[i].username,
                       password |-> RegisteredPassword(users[i])]) = users[i]._id

\* C5: a protected request of a session without identity is answered with
\* the redirect to /login, and the Item collection is neither read nor
\* written.
C5_GuardRedirects ==
    [][\A s \in Sessions :
           ~session[s].has /\ Answers(s, ProtectedRoutes)
           => /\ resp'.status = "redirect:/login"
              /\ resp'.store = "none"
              /\ items' = items
              /\ nextItem' = nextItem]_vars

\* A session without identity has just been sent to /login while items
\* are stored.
C5_Witness ==
    /\ resp.route \in ProtectedRoutes
    /\ resp.status = "redirect:/login"
    /\ ~session[resp.sid].has
    /\ DOMAIN items # {}

C7_LogoutClearsIdentity ==
    [][\A s \in Sessions :
           /\ Answers(s, {"getLogout"})
              => ~session'[s].has /\ resp'.status = "redirect:/"
           /\ ~session[s].has /\ session'[s].has
              => /\ resp'.sid = s
                 /\ resp'.route \in {"postLogin", "postRegister"}
                 /\ resp'.status = "redirect:/"
           /\ ~session[s].has /\ Answers(s, ProtectedRoutes)
              => resp'.status = "redirect:/login"]_vars

\* A session has just logged out while the other one stays logged in.
C7_Witness ==
    /\ resp.route = "getLogout"
    /\ ~session[resp.sid].has
    /\ \E t \in Sessions : t # resp.sid /\ session[t].has

\* Session s is logged in and id names a stored item of its user.
Owned(s, id) ==
    /\ session[s].has /\ session[s].idHas
    /\ CastObjectId(id) \in DOMAIN items
    /\ ToString(items[CastObjectId(id)].user) = session[s]._id

\* C8: DELETE /delete/:id on an item of the caller removes exactly that
\* item (deletedCount 1); on an id that names no item of the caller it
\* removes nothing (deletedCount 0); a removed id never names an item
\* again, so a second DELETE of the same id removes nothing.
C8_DeleteIdempotent ==
    [][/\ \A s \in Sessions, id \in IdParams :
              session[s].has /\ Answers(s, {"delete"}) /\ resp'.id = id
              => IF Owned(s, id)
                 THEN /\ resp'.deletedCount = 1
                      /\ DOMAIN items' = DOMAIN items \ {CastObjectId(id)}
                      /\ \A i \in DOMAIN items' : items'[i] = items[i]
                 ELSE /\ resp'.deletedCount = 0
                      /\ items' = items
       /\ \A i \in 1..(nextItem - 1) :
              i \notin DOMAIN items => i \notin DOMAIN items'
       /\ /\ resp.route = "delete" /\ resp.deletedCount = 1
          /\ Answers(resp.sid, {"delete"}) /\ resp'.id = resp.id
          => resp'.deletedCount = 0 /\ items' = items]_vars

\* A logged-in session has just repeated the DELETE of an id whose item is
\* gone, and nothing was removed.
C8_Witness ==
    /\ resp.route = "delete"
    /\ resp.deletedCount = 0
    /\ session[resp.sid].has
    /\ CastObjectId(resp.id) \in 1..(nextItem - 1)
    /\ CastObjectId(resp.id) \notin DOMAIN items

\* The quantity input is omitted, negative or not numeric.
BadQuantity(q) ==
    \/ ~q.has
    \/ q.val # <<>> /\ Head(q.val) = "-"
    \/ \E i \in 1..Len(q.val) : q.val[i] \notin DigitChars \cup {".", "-", "+"}

\* C9: an add or an update whose quantity input is negative, not numeric
\* or omitted stores quantity 0 on the item it creates or updates.
C9_QuantityClamp ==
    [][\A body \in ItemBodies :
           BadQuantity(body.quantity) =>
               /\ /\ resp'.route = "postAdd" /\ resp'.store = "write"
                  /\ \E now \in Now : PostAdd(resp'.sid, body, now)
                  => items'[nextItem].quantity = Zero
               /\ /\ resp'.route = "putEdit" /\ resp'.store = "write"
                  /\ PutEdit(resp'.sid, resp'.id, body)
                  => items'[CastObjectId(resp'.id)].quantity = Zero]_vars

\* An add or an update has just stored quantity 0; no body carries a
\* numeric zero, so the input was negative, not numeric or omitted.
C9_Witness ==
    /\ resp.route \in {"postAdd", "putEdit"}
    /\ resp.store = "write"
    /\ CastObjectId(resp.id) \in DOMAIN items
    /\ items[CastObjectId(resp.id)].quantity = Zero

PartialBodies ==
    { ItemBody(IF n THEN Field("Nail") ELSE NoStr,
               IF c THEN Field("Toys") ELSE NoStr,
               IF q THEN Field(<<"7">>) ELSE NoChars,
               IF d THEN Field("2024-06-01") ELSE NoStr) :
          n \in BOOLEAN, c \in BOOLEAN, q \in BOOLEAN, d \in BOOLEAN }

\* C11 as stated: an update of an item of the caller keeps the stored
\* value of every one of name, category, quantity and dateAcquired that is
\* absent from the body.
C11_AbsentFieldsKept ==
    \A s \in Sessions, id \in IdParams, body \in PartialBodies :
        Owned(s, id) =>
            LET old == items[CastObjectId(id)]
                new == EditedItems(s, id, body)[CastObjectId(id)]
            IN /\ ~body.name.has => new.name = old.name
               /\ ~body.category.has => new.category = old.category
               /\ ~body.dateAcquired.has => new.dateAcquired = old.dateAcquired
               /\ ~body.quantity.has => new.quantity = old.quantity

\* C11 as amended: an update of an item of the caller keeps the stored
\* value of every one of name, category and dateAcquired that is absent
\* from the body; quantity is written by every update, and an absent
\* quantity is stored as 0.
C11_AbsentFieldsKeptButQuantity ==
    \A s \in Sessions, id \in IdParams, body \in PartialBodies :
        Owned(s, id) =>
            LET old == items[CastObjectId(id)]
                new == EditedItems(s, id, body)[CastObjectId(id)]
            IN /\ ~body.name.has => new.name = old.name
               /\ ~body.category.has => new.category = old.category
               /\ ~body.dateAcquired.has => new.dateAcquired = old.dateAcquired
               /\ ~body.quantity.has => new.quantity = Zero

\* An update that sent the name alone has just been written: the item has
\* the new name, its stored category and date, and quantity 0.
C11_Witness ==
    /\ resp.route = "putEdit" /\ resp.store = "write"
    /\ CastObjectId(resp.id) \in DOMAIN items
    /\ items[CastObjectId(resp.id)].name = "Nail"
    /\ items[CastObjectId(resp.id)].category = "Tools"
    /\ items[CastObjectId(resp.id)].dateAcquired = DateOf(20240101)
    /\ items[CastObjectId(resp.id)].quantity = Zero

\* The step answers a POST /add of a logged-in session with this body.
AddStep(body, now) ==
    /\ resp'.route = "postAdd"
    /\ session[resp'.sid].has /\ session[resp'.sid].idHas
    /\ PostAdd(resp'.sid, body, now)

\* The step creates exactly one item, owned by the caller, and redirects
\* to /inventory.
OneItemCreated ==
    /\ resp'.status = "redirect:/inventory"
    /\ nextItem \notin DOMAIN items
    /\ DOMAIN items' = DOMAIN items \cup {nextItem}
    /\ \A i \in DOMAIN items : items'[i] = items[i]
    /\ ToString(items'[nextItem].user) = session[resp'.sid]._id

\* The date strings that parse.
ParseableDates == {"2024-01-01", "2024-06-01"}

AddAccepted(body) ==
    /\ body.name.has /\ body.name.val \notin {"", " "}
    /\ body.category.has /\ body.category.val # ""
    /\ body.dateAcquired.has => body.dateAcquired.val \in ParseableDates \cup {""}

C13_NameAndCategoryNonEmpty ==
    \A i \in DOMAIN items : items[i].name # "" /\ items[i].category # ""

\* The sum of the quantities of a set of items.
RECURSIVE SumOver(_)
SumOver(ids) ==
    IF ids = {} THEN Zero
    ELSE LET i == CHOOSE j \in ids : TRUE
         IN Plus(items[i].quantity, SumOver(ids \ {i}))

\* The reference aggregation over the items of one user.
ReferenceStats(uid) ==
    [totalItems |-> Cardinality(ItemsOf(uid)),
     totalQuantity |-> SumOver(ItemsOf(uid)),
     categoryCount |->
         [c \in {items[i].category : i \in ItemsOf(uid)} |->
             JSNumber(Cardinality({i \in ItemsOf(uid) : items[i].category = c}))]]

\* C14: the statistics rendered for a user are the reference aggregation
\* over exactly that user's items: their number, the sum of their
\* quantities, and for each of their categories the number of them in it.
C14_StatsMatchReference ==
    resp.route = "getStats" /\ resp.status = "render:stats"
        => resp.locals = ReferenceStats(SessionUserId(session[resp.sid]))

\* C15: the inventory rendered for a session lists exactly the items of
\* the session's user, each once, and of any two listed items with
\* different dates the one acquired later comes first.
C15_InventoryOwnedAndSorted ==
    resp.route = "getInventory" /\ resp.status = "render:inventory"
        => LET list == resp.locals.items
               mine == ItemsOf(SessionUserId(session[resp.sid]))
           IN /\ {list[k] : k \in 1..Len(list)} = mine
              /\ Len(list) = Cardinality(mine)
              /\ \A a, b \in 1..Len(list) :
                     /\ items[list[a]].dateAcquired.kind = "date"
                     /\ items[list[b]].dateAcquired.kind = "date"
                     /\ items[list[a]].dateAcquired.day > items[list[b]].dateAcquired.day
                     => a < b

\* The inventory just rendered lists two items, the one stored second
\* first because it was acquired later.
C15_Witness ==
    /\ resp.route = "getInventory" /\ resp.status = "render:inventory"
    /\ Len(resp.locals.items) = 2
    /\ resp.locals.items[1] > resp.locals.items[2]
    /\ items[resp.locals.items[1]].dateAcquired.day
           > items[resp.locals.items[2]].dateAcquired.day

\* C16: a store operation that rejects while a request is handled never
\* ends the process and never leaves the request without a response, and
\* the response to it is a redirect or a re-rendered form, on every route
\* that uses the store, GET /inventory included.
C16_StoreFailureAnswered ==
    /\ server.up
    /\ server.abandoned = {}
    /\ resp.store = "failed" =>
           resp.status \in {"redirect:/inventory", "redirect:/add",
                            "render:register", "render:login"}

\* C17: once the connection to the database has failed at startup the
\* process handles no request: no response is sent from then on.
C17_FailedConnectionServesNothing ==
    [][server.db = "failed" => UNCHANGED resp]_vars

\* No stored user has the username of the body.
UnknownUser(body) == \A i \in 1..Len(users) : users[i].username # body.username

\* The username of the body is stored and the password of the body is not
\* the one its user registered with.
WrongPassword(body) ==
    /\ \E i \in 1..Len(users) : users[i].username = body.username
    /\ body.password # RegisteredPassword(FindOneUser(body.username))

C19_UpdateDeleteRaceSafe ==
    [][/\ nextItem' >= nextItem
       /\ \A i \in DOMAIN items' \ DOMAIN items :
              i = nextItem /\ resp'.route = "postAdd"
       /\ \A r \in inflight \ inflight' :
              /\ r.route = "putEdit" /\ CastObjectId(r.id) \notin DOMAIN items
                 => items' = items
              /\ r.route = "delete" =>
                     /\ DOMAIN items \ DOMAIN items' \subseteq {CastObjectId(r.id)}
                     /\ resp'.deletedCount = Cardinality(DOMAIN items \ DOMAIN items')
                     /\ \A i \in DOMAIN items' : items'[i] = items[i]
                     /\ CastObjectId(r.id) \notin DOMAIN items => items' = items]_vars

\* An update sent while its item was stored has just been applied after a
\* delete removed the item, and a second delete of the item is still in
\* flight.
C19_Witness ==
    /\ resp.route = "putEdit" /\ resp.store = "read"
    /\ CastObjectId(resp.id) \notin DOMAIN items
    /\ CastObjectId(resp.id) \in 1..(nextItem - 1)
    /\ \E r \in inflight : r.route = "delete" /\ r.id = resp.id

\* C20: the owner of a new item is the user of the session that added
\* it, and no request changes the owner of a stored item, whatever fields
\* its body carries.
C20_OwnerFixedAtCreation ==
    [][/\ \A i \in DOMAIN items' \ DOMAIN items :
              /\ resp'.route = "postAdd"
              /\ session[resp'.sid].idHas
              /\ ToString(items'[i].user) = session[resp'.sid]._id
       /\ \A i \in DOMAIN items' \cap DOMAIN items :
              items'[i].user = items[i].user]_vars

\* alice has just updated an item of hers with the body that names bob as
\* its user, and the item is still hers.
C20_Witness ==
    /\ resp.route = "putEdit" /\ resp.store = "write"
    /\ Len(users) = 2
    /\ session[resp.sid].username = "alice"
    /\ items[CastObjectId(resp.id)].name = "Nail"
    /\ ToString(items[CastObjectId(resp.id)].user) = session[resp.sid]._id

\* The payload of session s is the id and username of one stored user.
HoldsStoredUser(s) ==
    /\ session[s].idHas
    /\ \E i \in 1..Len(users) :
           /\ ToString(users[i]._id) = session[s]._id
           /\ users[i].username = session[s].username

\* C21: in every reachable state a session that holds an identity holds
\* the id and username of one stored user; a step that changes the
\* payload of a session answers a request of that session, and when it
\* leaves an identity there the request is a login or a registration that
\* succeeded; otherwise it is a logout, which leaves none.
C21_SessionIdentity ==
    /\ \A s \in Sessions : session[s].has => HoldsStoredUser(s)
    /\ [][/\ \A s \in Sessions : session'[s].has => HoldsStoredUser(s)'
          /\ \A s \in Sessions :
                 session'[s] # session[s] =>
                     /\ resp'.sid = s
                     /\ IF session'[s].has
                        THEN /\ resp'.route \in {"postLogin", "postRegister"}
                             /\ resp'.status = "redirect:/"
                        ELSE resp'.route = "getLogout"]_vars

\* A login has just succeeded on one session while the other session
\* holds the identity of another stored user.
C21_Witness ==
    /\ resp.route = "postLogin" /\ resp.status = "redirect:/"
    /\ HoldsStoredUser(resp.sid)
    /\ \E t \in Sessions \ {resp.sid} :
           /\ session[t].has /\ HoldsStoredUser(t)
           /\ session[t]._id # session[resp.sid]._id
====
